---- MODULE Spec2Model ----
(***************************************************************************)
(* Model of the match lifecycle core of LiveScoreTracker: the score        *)
(* extractor (ScoreTracker.extract_score), the match filter                *)
(* (MatchFilter.should_track_match / log_filtering_info) and the           *)
(* orchestrator (ScoreTracker.process_match) of src/tracking.py, with the  *)
(* timer maps of src/activity.py.                                          *)
(*                                                                         *)
(* Python strings whose characters matter (score strings, team, league and *)
(* sport names) are sequences of one-character strings, so that split,     *)
(* strip, lower, `in` and int() are computed as Python computes them.      *)
(* A JSON value is a record [t, n, s]: t is "absent" (key missing),        *)
(* "none" (null), "int" (number n), "str" (string s) or "dict".            *)
(***************************************************************************)
EXTENDS Integers, Sequences, FiniteSets, TLC

VARIABLES
    config,                 \* the static Config of the tracker
    now,                    \* time.time(), in seconds
    last_scores,            \* ScoreTracker.last_scores
    filtered_matches,       \* MatchFilter.filtered_matches
    tracked_matches_info,   \* MatchFilter.tracked_matches_info
    score_change_times,     \* ActivityTracker.score_change_times
    zero_score_start_times, \* ActivityTracker.zero_score_start_times
    notifications,          \* the events handed to Notifier.send_notification
    call,                   \* the last operation performed and its arguments
    ex_input,               \* argument of a stand-alone extract_score call
    ex_result,              \* its outcome
    act,                    \* the last ActivityTracker call and its outcome
    zero_watch,             \* per match: the first get_activity look at 0-0
    fcall,                  \* the last stand-alone should_track_match call
    decided,                \* the record it is called with, the decisions so far
    running,                \* ScoreTracker.running
    worker,                 \* the thread of track_matches: position and locals
    main,                   \* the thread that calls start() and stop()
    stored_by,              \* per table key: the record and cycle that wrote it
    request,                \* one get_live_matches call: position and locals
    score_cache,            \* ScoreCache._cache
    cache_call,             \* the last ScoreCache call and its outcome
    threads                 \* every thread start() created, oldest first

vars == <<config, now, last_scores, filtered_matches, tracked_matches_info,
          score_change_times, zero_score_start_times, notifications, call,
          ex_input, ex_result, act, zero_watch, fcall, decided,
          running, worker, main, stored_by,
          request, score_cache, cache_call, threads>>

\* the variables only a stand-alone upstream fetch, the ScoreCache calls and
\* the restarted tracker write
serviceVars == <<request, score_cache, cache_call, threads>>

\* the variables only the ActivityTracker calls write
activityLog == <<act, zero_watch>>

\* the variables only the stand-alone should_track_match calls write
filterLog == <<fcall, decided>>

\* the variables only the polling loop and its callers write
loopVars == <<running, worker, main, stored_by>>

(***************************************************************************)
(* Bounds of the model.                                                    *)
(***************************************************************************)
MaxLen == 4            \* longest enumerated score string
MaxInt == 11           \* scores formatted as "a-b" range over -MaxInt..MaxInt
MaxCalls == 3          \* process_match calls in one behaviour
MaxTime == 2           \* clock ticks in one behaviour
MaxThreshold == 3      \* notification_threshold ranges over 1..MaxThreshold
MaxClock == 1500       \* latest time of an ActivityTracker call, in seconds
MaxCycles == 2         \* polling cycles a thread begins
MaxRetries == 3        \* max_retries ranges over 0..MaxRetries
MaxDelay == 2          \* retry_delay ranges over 1..MaxDelay, in seconds
MaxExpiry == 2         \* cache_expiry ranges over 1..MaxExpiry, in seconds
MaxCacheClock == 3     \* latest time of a ScoreCache call, in seconds
MaxThreads == 2        \* threads start() creates in one behaviour

(***************************************************************************)
(* Python string primitives.                                               *)
(***************************************************************************)
Digits == <<"0", "1", "2", "3", "4", "5", "6", "7", "8", "9">>

IsDigit(c) == \E i \in 1..Len(Digits) : Digits[i] = c

DigitVal(c) == (CHOOSE i \in 1..Len(Digits) : Digits[i] = c) - 1

IsSpace(c) == c = " "

RECURSIVE LStrip(_)
LStrip(s) == IF s # <<>> /\ IsSpace(Head(s)) THEN LStrip(Tail(s)) ELSE s

RECURSIVE RStrip(_)
RStrip(s) ==
    IF s # <<>> /\ IsSpace(s[Len(s)]) THEN RStrip(SubSeq(s, 1, Len(s) - 1)) ELSE s

\* str.strip()
PyStrip(s) == RStrip(LStrip(s))

\* c in s, for a one-character c
HasChar(s, c) == \E i \in 1..Len(s) : s[i] = c

\* s.split(c) for a one-character separator: every occurrence splits
RECURSIVE PySplit(_, _)
PySplit(s, c) ==
    IF ~HasChar(s, c) THEN <<s>>
    ELSE LET i == CHOOSE k \in 1..Len(s) :
                      s[k] = c /\ \A j \in 1..(k - 1) : s[j] # c
         IN  <<SubSeq(s, 1, i - 1)>> \o PySplit(SubSeq(s, i + 1, Len(s)), c)

RECURSIVE DigitsVal(_)
DigitsVal(s) ==
    IF s = <<>> THEN 0
    ELSE 10 * DigitsVal(SubSeq(s, 1, Len(s) - 1)) + DigitVal(s[Len(s)])

\* int(s) of a string: surrounding whitespace is ignored, one optional sign,
\* then at least one decimal digit; anything else is a ValueError (ok = FALSE).
PyInt(s) ==
    LET t      == PyStrip(s)
        signed == t # <<>> /\ Head(t) \in {"-", "+"}
        body   == IF signed THEN Tail(t) ELSE t
        ok     == body # <<>> /\ \A i \in 1..Len(body) : IsDigit(body[i])
    IN  [ok  |-> ok,
         val |-> IF ~ok THEN 0
                 ELSE IF signed /\ Head(t) = "-" THEN 0 - DigitsVal(body)
                 ELSE DigitsVal(body)]

RECURSIVE NatToStr(_)
NatToStr(n) ==
    IF n < 10 THEN <<Digits[n + 1]>>
    ELSE NatToStr(n \div 10) \o <<Digits[(n % 10) + 1]>>

\* str(n) of an integer
IntToStr(n) == IF n < 0 THEN <<"-">> \o NatToStr(0 - n) ELSE NatToStr(n)

(***************************************************************************)
(* JSON values of a raw match record.                                      *)
(***************************************************************************)
Absent == [t |-> "absent", n |-> 0, s |-> <<>>]
JNone == [t |-> "none", n |-> 0, s |-> <<>>]
JInt(n) == [t |-> "int", n |-> n, s |-> <<>>]
JStr(s) == [t |-> "str", n |-> 0, s |-> s]
JDict == [t |-> "dict", n |-> 0, s |-> <<>>]

\* str(v)
PyStr(v) ==
    CASE v.t = "str" -> v.s
      [] v.t = "int" -> IntToStr(v.n)
      [] v.t = "none" -> <<"N", "o", "n", "e">>
      [] OTHER -> <<"{", "}">>

(***************************************************************************)
(* ScoreTracker.extract_score.  An outcome is [exc, home, away]; exc is    *)
(* "none" for a normal return and otherwise names the exception raised.    *)
(***************************************************************************)
Score(h, a) == [exc |-> "none", home |-> h, away |-> a]

Raised(e) == [exc |-> e, home |-> 0, away |-> 0]

\* the default of match_data.get("score", "0-0")
ScoreDefault_Shifted == <<"1", "-", "0">>

ScoreDefault == <<"0", "-", "0">>

\* try: int(text) / except ValueError: 0
IntOrZero(text) ==
    IF PyInt(text).ok THEN [exc |-> "none", val |-> PyInt(text).val]
    ELSE [exc |-> "none", val |-> 0]

\* dict.get(key, 0) of a key that may be missing
GetOrZero(v) == IF v.t = "absent" THEN JInt(0) ELSE v

\* try: int(str(v).strip() or 0) / except ValueError: 0
FieldInt(v) ==
    LET text == PyStrip(PyStr(GetOrZero(v)))
    IN  IF text = <<>> THEN [exc |-> "none", val |-> 0] ELSE IntOrZero(text)

\* the first exception raised by two statements executed in order
Both(h, a) ==
    IF h.exc # "none" THEN Raised(h.exc)
    ELSE IF a.exc # "none" THEN Raised(a.exc)
    ELSE Score(h.val, a.val)

\* parts[i].strip(), an IndexError when the list is too short
PartInt(parts, i) ==
    IF i > Len(parts) THEN [exc |-> "IndexError", val |-> 0]
    ELSE IntOrZero(PyStrip(parts[i]))

\* the branch taken for a string score containing "-"
FromScoreString_Swapped(text) ==
    LET parts == PySplit(text, "-")
    IN  Both(PartInt(parts, 2), PartInt(parts, 1))

FromScoreString(text) ==
    LET parts == PySplit(text, "-")
    IN  Both(PartInt(parts, 1), PartInt(parts, 2))

\* the branch taken when a "scores" key exists
FromScores_Unchecked(md) ==
    IF md.scores.t = "dict"
    THEN Both(FieldInt(md.scores_home), FieldInt(md.scores_away))
    ELSE Raised("AttributeError")

FromScores(md) ==
    IF md.scores.t = "dict"
    THEN Both(FieldInt(md.scores_home), FieldInt(md.scores_away))
    ELSE Score(0, 0)

\* match_data.get("score", "0-0")
ScoreField(md) == IF md.score.t = "absent" THEN JStr(ScoreDefault) ELSE md.score

\* the body of the try block
ExtractBody(md) ==
    LET score == ScoreField(md)
    IN  IF score.t = "str" /\ HasChar(score.s, "-")
        THEN FromScoreString(score.s)
        ELSE IF md.fs_home.t # "absent" /\ md.fs_away.t # "absent"
        THEN Both(FieldInt(md.fs_home), FieldInt(md.fs_away))
        ELSE IF md.home_score.t # "absent" /\ md.away_score.t # "absent"
        THEN Both(FieldInt(md.home_score), FieldInt(md.away_score))
        ELSE IF md.scores.t # "absent"
        THEN FromScores(md)
        ELSE Score(0, 0)

\* except (ValueError, IndexError): return {"home": 0, "away": 0}
extract_score(md) ==
    LET r == ExtractBody(md)
    IN  IF r.exc \in {"ValueError", "IndexError"} THEN Score(0, 0) ELSE r

\* the dictionary extract_score returns
ScoreDict(r) == [home |-> r.home, away |-> r.away]

(***************************************************************************)
(* More string primitives, used by the match filter.                       *)
(***************************************************************************)
UpperCase == <<"A", "B", "C", "D", "E", "F", "G", "H", "I", "J", "K", "L", "M", "N", "O", "P", "Q", "R", "S", "T", "U", "V", "W", "X", "Y", "Z">>

LowerCase == <<"a", "b", "c", "d", "e", "f", "g", "h", "i", "j", "k", "l", "m", "n", "o", "p", "q", "r", "s", "t", "u", "v", "w", "x", "y", "z">>

LowerChar(c) ==
    IF \E i \in 1..Len(UpperCase) : UpperCase[i] = c
    THEN LowerCase[CHOOSE i \in 1..Len(UpperCase) : UpperCase[i] = c]
    ELSE c

\* str.lower()
PyLower(s) == [i \in 1..Len(s) |-> LowerChar(s[i])]

\* a in b
IsSubstr(a, b) ==
    \E i \in 0..(Len(b) - Len(a)) : SubSeq(b, i + 1, i + Len(a)) = a

\* b.split(sep, 1): the text before and after the first occurrence of sep
SplitOnce(b, sep) ==
    LET i == CHOOSE k \in 0..(Len(b) - Len(sep)) :
                 /\ SubSeq(b, k + 1, k + Len(sep)) = sep
                 /\ \A j \in 0..(k - 1) : SubSeq(b, j + 1, j + Len(sep)) # sep
    IN  <<SubSeq(b, 1, i), SubSeq(b, i + Len(sep) + 1, Len(b))>>

\* match.get(key, default) of a string-valued key
GetStr(v, default) == IF v.t = "absent" THEN default ELSE v.s

Unknown == <<"U", "n", "k", "n", "o", "w", "n">>
OtherCompetition == <<"O", "t", "h", "e", "r", " ", "C", "o", "m", "p", "e", "t", "i", "t", "i", "o", "n">>
OtherSport == <<"O", "t", "h", "e", "r", " ", "S", "p", "o", "r", "t">>
UnknownId == <<"u", "n", "k", "n", "o", "w", "n">>

SoccerWords ==
    {<<"s", "o", "c", "c", "e", "r">>,
     <<"f", "o", "o", "t", "b", "a", "l", "l">>,
     <<"p", "r", "e", "m", "i", "e", "r">>,
     <<"l", "a", " ", "l", "i", "g", "a">>,
     <<"b", "u", "n", "d", "e", "s", "l", "i", "g", "a">>,
     <<"s", "e", "r", "i", "e", " ", "a">>}

BasketballWords ==
    {<<"n", "b", "a">>,
     <<"b", "a", "s", "k", "e", "t", "b", "a", "l", "l">>,
     <<"n", "c", "a", "a">>}

HockeyWords ==
    {<<"n", "h", "l">>,
     <<"h", "o", "c", "k", "e", "y">>,
     <<"i", "c", "e">>}

TennisWords ==
    {<<"t", "e", "n", "n", "i", "s">>,
     <<"a", "t", "p">>,
     <<"w", "t", "a">>}

BaseballWords ==
    {<<"b", "a", "s", "e", "b", "a", "l", "l">>,
     <<"m", "l", "b">>}

AmericanFootballWords ==
    {<<"n", "f", "l">>,
     <<"a", "m", "e", "r", "i", "c", "a", "n", " ", "f", "o", "o", "t", "b", "a", "l", "l">>}

(***************************************************************************)
(* Dictionaries: a Python dict is a function whose domain is its key set.  *)
(***************************************************************************)
EmptyDict == [k \in {} |-> 0]

DictSet(d, key, value) ==
    [k \in (DOMAIN d) \cup {key} |-> IF k = key THEN value ELSE d[k]]

(***************************************************************************)
(* MatchFilter.                                                            *)
(***************************************************************************)
\* the lower-cased sets built by MatchFilter.__init__
tracked_teams == {PyLower(t) : t \in config.tracked_teams}

tracked_leagues == {PyLower(t) : t \in config.tracked_leagues}

tracked_match_ids == config.tracked_match_ids

exclude_teams == {PyLower(t) : t \in config.exclude_teams}

exclude_leagues == {PyLower(t) : t \in config.exclude_leagues}

tracked_sports == {PyLower(t) : t \in config.sports}

\* match.get('home_name', match.get('home', default))
HomeName(md, default) == GetStr(md.home_name, GetStr(md.home, default))

\* match.get('away_name', match.get('away', default))
AwayName(md, default) == GetStr(md.away_name, GetStr(md.away, default))

\* the league taken from event_name / description
EventLeague(md) ==
    LET event_name == GetStr(md.event_name, GetStr(md.description, <<>>))
    IN  IF event_name = <<>> THEN <<>>
        ELSE IF IsSubstr(<<":">>, event_name)
        THEN PyStrip(SplitOnce(event_name, <<":">>)[1])
        ELSE IF IsSubstr(<<" ", "-", " ">>, event_name)
        THEN PyStrip(SplitOnce(event_name, <<" ", "-", " ">>)[2])
        ELSE <<>>

\* the league fallback chain: league_name, competition_name, league, event
DeriveLeague(md) ==
    LET l1 == GetStr(md.league_name, <<>>)
        l2 == IF l1 # <<>> THEN l1 ELSE GetStr(md.competition_name, <<>>)
        l3 == IF l2 # <<>> THEN l2 ELSE GetStr(md.league, <<>>)
    IN  IF l3 # <<>> THEN l3 ELSE EventLeague(md)

\* the league with its default
LeagueOrDefault(md) ==
    IF DeriveLeague(md) # <<>> THEN DeriveLeague(md) ELSE OtherCompetition

HasWord(words, text) == \E w \in words : IsSubstr(w, text)

\* the sport inferred from the league name
InferSport(league) ==
    LET league_lower == PyLower(league)
    IN  IF HasWord(SoccerWords, league_lower)
        THEN <<"S", "o", "c", "c", "e", "r">>
        ELSE IF HasWord(BasketballWords, league_lower)
        THEN <<"B", "a", "s", "k", "e", "t", "b", "a", "l", "l">>
        ELSE IF HasWord(HockeyWords, league_lower)
        THEN <<"H", "o", "c", "k", "e", "y">>
        ELSE IF HasWord(TennisWords, league_lower)
        THEN <<"T", "e", "n", "n", "i", "s">>
        ELSE IF HasWord(BaseballWords, league_lower)
        THEN <<"B", "a", "s", "e", "b", "a", "l", "l">>
        ELSE IF HasWord(AmericanFootballWords, league_lower)
        THEN <<"A", "m", "e", "r", "i", "c", "a", "n", " ",
               "F", "o", "o", "t", "b", "a", "l", "l">>
        ELSE OtherSport

\* the sport fallback chain: sport_name / sport, category_name / category,
\* then keyword inference
DeriveSport(md) ==
    LET s1 == GetStr(md.sport_name, GetStr(md.sport, <<>>))
        s2 == IF s1 # <<>> THEN s1
              ELSE GetStr(md.category_name, GetStr(md.category, <<>>))
    IN  IF s2 # <<>> THEN s2 ELSE InferSport(LeagueOrDefault(md))

is_team_match(md) ==
    LET home == PyLower(HomeName(md, <<>>))
        away == PyLower(AwayName(md, <<>>))
    IN  \E team \in tracked_teams : IsSubstr(team, home) \/ IsSubstr(team, away)

is_league_match(md) ==
    LET league == PyLower(DeriveLeague(md))
    IN  \E tracked_league \in tracked_leagues : IsSubstr(tracked_league, league)

is_excluded_team(md) ==
    LET home == PyLower(HomeName(md, <<>>))
        away == PyLower(AwayName(md, <<>>))
    IN  \E team \in exclude_teams : IsSubstr(team, home) \/ IsSubstr(team, away)

is_excluded_league(md) ==
    LET league == PyLower(DeriveLeague(md))
    IN  \E excluded_league \in exclude_leagues : IsSubstr(excluded_league, league)

is_tracked_sport(md) ==
    IF config.sports_is_none THEN TRUE
    ELSE PyLower(GetStr(md.sport_name, GetStr(md.sport, <<>>))) \in tracked_sports

\* str(match.get('id', ''))
FilterId(md) == IF md.id.t = "absent" THEN <<>> ELSE PyStr(md.id)

\* the value should_track_match returns
should_track_match_ExclusionsFirst(md) ==
    IF ~is_tracked_sport(md) THEN FALSE
    ELSE IF is_excluded_team(md) \/ is_excluded_league(md) THEN FALSE
    ELSE IF FilterId(md) \in tracked_match_ids THEN TRUE
    ELSE IF config.track_all_matches THEN TRUE
    ELSE is_team_match(md) \/ is_league_match(md)

should_track_match_AllFirst(md) ==
    IF ~is_tracked_sport(md) THEN FALSE
    ELSE IF FilterId(md) \in tracked_match_ids THEN TRUE
    ELSE IF config.track_all_matches THEN TRUE
    ELSE IF is_excluded_team(md) \/ is_excluded_league(md) THEN FALSE
    ELSE is_team_match(md) \/ is_league_match(md)

should_track_match_Cached(md) ==
    IF FilterId(md) \in DOMAIN tracked_matches_info THEN TRUE
    ELSE IF ~is_tracked_sport(md) THEN FALSE
    ELSE IF FilterId(md) \in tracked_match_ids THEN TRUE
    ELSE IF is_excluded_team(md) \/ is_excluded_league(md) THEN FALSE
    ELSE IF config.track_all_matches THEN TRUE
    ELSE is_team_match(md) \/ is_league_match(md)

should_track_match(md) ==
    IF ~is_tracked_sport(md) THEN FALSE
    ELSE IF FilterId(md) \in tracked_match_ids THEN TRUE
    ELSE IF is_excluded_team(md) \/ is_excluded_league(md) THEN FALSE
    ELSE IF config.track_all_matches THEN TRUE
    ELSE is_team_match(md) \/ is_league_match(md)

\* the entry should_track_match stores for a match tracked by ID
MatchInfo(md) ==
    [home   |-> HomeName(md, Unknown),
     away   |-> AwayName(md, Unknown),
     league |-> LeagueOrDefault(md),
     sport  |-> DeriveSport(md)]

\* tracked_matches_info after a should_track_match call
InfoAfterFilter_Eager(info, md) ==
    IF FilterId(md) \notin DOMAIN info
    THEN DictSet(info, FilterId(md), MatchInfo(md))
    ELSE info

InfoAfterFilter_Refresh(info, md) ==
    IF is_tracked_sport(md) /\ FilterId(md) \in tracked_match_ids
    THEN DictSet(info, FilterId(md), MatchInfo(md))
    ELSE info

InfoAfterFilter(info, md) ==
    IF /\ is_tracked_sport(md)
       /\ FilterId(md) \in tracked_match_ids
       /\ FilterId(md) \notin DOMAIN info
    THEN DictSet(info, FilterId(md), MatchInfo(md))
    ELSE info

\* filtered_matches after a log_filtering_info call
FilteredAfterLog(filtered, md) == filtered \cup {FilterId(md)}

(***************************************************************************)
(* Raw match records.                                                      *)
(***************************************************************************)
EmptyRecord ==
    [id |-> Absent, score |-> Absent,
     fs_home |-> Absent, fs_away |-> Absent,
     home_score |-> Absent, away_score |-> Absent,
     scores |-> Absent, scores_home |-> Absent, scores_away |-> Absent,
     home_name |-> Absent, home |-> Absent,
     away_name |-> Absent, away |-> Absent,
     league_name |-> Absent, competition_name |-> Absent, league |-> Absent,
     event_name |-> Absent, description |-> Absent,
     sport_name |-> Absent, sport |-> Absent,
     category_name |-> Absent, category |-> Absent]

\* the text "a-b" of two integers
FormatScore(a, b) == IntToStr(a) \o <<"-">> \o IntToStr(b)

ScoreChars == {"0", "1", "2", "-", " ", "?"}

\* every string of at most n characters of ScoreChars
AllStrings(n) == UNION {[1..k -> ScoreChars] : k \in 0..n}

FormattedScores == {FormatScore(a, b) : a, b \in (0 - MaxInt)..MaxInt}

ScoreStrings == AllStrings(MaxLen) \cup FormattedScores

\* values a fallback score field may hold
FieldValues ==
    {Absent, JNone, JInt(0), JInt(2), JInt(0 - 1), JStr(<<>>), JStr(<<"1">>),
     JStr(<<" ", "2", " ">>), JStr(<<"-", "1">>), JStr(<<"?">>)}

\* values of a `score` key that is missing or is not a string containing "-"
PlainScores == {Absent, JNone, JInt(3), JStr(<<>>), JStr(<<"5">>)}

\* records whose `score` is a string, alone or beside fs_home / fs_away
StringScoreRecords ==
    {[EmptyRecord EXCEPT !.score = JStr(s), !.fs_home = f, !.fs_away = f] :
        s \in ScoreStrings, f \in {Absent, JInt(2)}}

\* records whose score can only come from the fallback fields
FallbackRecords ==
    {[EmptyRecord EXCEPT !.score = sc, !.fs_home = fh, !.fs_away = fa,
                         !.home_score = hs[1], !.away_score = hs[2],
                         !.scores = ns[1], !.scores_home = ns[2],
                         !.scores_away = ns[3]] :
        sc \in PlainScores, fh \in FieldValues, fa \in FieldValues,
        hs \in {<<Absent, Absent>>, <<JInt(1), JStr(<<"2">>)>>,
                <<Absent, JInt(1)>>},
        ns \in {<<Absent, Absent, Absent>>, <<JDict, JInt(1), JStr(<<"0">>)>>,
                <<JDict, Absent, JStr(<<"?">>)>>, <<JNone, Absent, Absent>>,
                <<JStr(<<"1">>), Absent, Absent>>}}

\* display and grouping fields of the records the upstream API returns
MetaA ==
    [EmptyRecord EXCEPT !.sport_name = JStr(<<"S", "o", "c", "c", "e", "r">>),
                        !.home_name = JStr(<<"A", "b">>),
                        !.away_name = JStr(<<"C", "d">>),
                        !.league_name = JStr(<<"P", "r", "e", "m", "i", "e", "r">>)]

MetaB ==
    [EmptyRecord EXCEPT !.sport = JStr(<<"T", "e", "n", "n", "i", "s">>),
                        !.home = JStr(<<"E", "f">>),
                        !.away = JStr(<<"G", "h">>),
                        !.event_name = JStr(<<"A", "T", "P", ":", " ", "x">>)]

ExtractInputs ==
    StringScoreRecords \cup FallbackRecords \cup {EmptyRecord, MetaA, MetaB}

WithScore(md, id, text) == [md EXCEPT !.id = id, !.score = JStr(text)]

RawRecords ==
    {WithScore(MetaA, JStr(<<"1">>), <<"0", "-", "0">>),
     WithScore(MetaA, JStr(<<"1">>), <<"2", "-", "0">>),
     WithScore(MetaA, JStr(<<"1">>), <<"1", " ", "-", " ", "0">>),
     [MetaA EXCEPT !.id = JStr(<<"1">>), !.score = JNone,
                   !.fs_home = JStr(<<"-", "1">>), !.fs_away = JInt(0)],
     WithScore(MetaB, JStr(<<"2">>), <<"0", "-", "0">>),
     WithScore(MetaB, JStr(<<"2">>), <<"1", "-", "1">>),
     WithScore(MetaA, Absent, <<"?", " ", "-", " ", "?">>),
     WithScore(MetaB, Absent, <<"0", "-", "3">>)}

\* the Config defaults
DefaultConfig ==
    [notification_threshold |-> 2, sports_is_none |-> TRUE, sports |-> {}, tracked_teams |-> {},
     tracked_leagues |-> {}, tracked_match_ids |-> {}, exclude_teams |-> {},
     exclude_leagues |-> {}, track_all_matches |-> TRUE,
     max_retries |-> 3, retry_delay |-> 2, cache_expiry |-> 60]

FilterSettings ==
    {DefaultConfig,
     [DefaultConfig EXCEPT !.sports_is_none = FALSE,
                           !.sports = {<<"S", "o", "c", "c", "e", "r">>},
                           !.tracked_match_ids = {<<"1">>},
                           !.exclude_teams = {<<"A", "B">>}],
     [DefaultConfig EXCEPT !.track_all_matches = FALSE,
                           !.tracked_teams = {<<"e", "F">>},
                           !.tracked_match_ids = {<<"1">>},
                           !.exclude_leagues = {<<"p", "r", "e", "m", "i", "e", "r">>}]}

Configs ==
    {[f EXCEPT !.notification_threshold = th] :
        th \in 1..MaxThreshold, f \in FilterSettings}

\* a record without any sport field whose league names a sport
MetaNba ==
    [EmptyRecord EXCEPT !.home_name = JStr(<<"I", "j">>),
                        !.away_name = JStr(<<"K", "l">>),
                        !.league_name = JStr(<<"N", "B", "A">>)]

\* the records and configurations the filter is called with on its own
FilterRecords ==
    {WithScore(MetaA, JStr(<<"1">>), <<"0", "-", "0">>),
     WithScore(MetaB, JStr(<<"1">>), <<"0", "-", "0">>),
     WithScore(MetaB, JStr(<<"2">>), <<"0", "-", "0">>),
     WithScore(EmptyRecord, JStr(<<"3">>), <<"0", "-", "0">>),
     WithScore(MetaNba, JStr(<<"4">>), <<"0", "-", "0">>),
     WithScore(MetaA, Absent, <<"0", "-", "0">>)}

FilterConfigs ==
    FilterSettings \cup
    {[DefaultConfig EXCEPT !.track_all_matches = FALSE,
                           !.tracked_teams = {<<"a", "b">>},
                           !.tracked_leagues = {<<"A", "t", "p">>},
                           !.exclude_teams = {<<"G", "h">>},
                           !.exclude_leagues = {<<"p", "r", "e", "m", "i", "e", "r">>}],
     [DefaultConfig EXCEPT !.sports_is_none = FALSE],
     [DefaultConfig EXCEPT !.sports_is_none = FALSE,
                           !.sports = {<<"B", "a", "s", "k", "e", "t", "b", "a", "l", "l">>}]}

\* the record of a should_track_match call: the record decided, the value
\* returned, whether the record was decided before, and whether its id was
\* in the tracked-match cache when the call was made
NoFilterCall ==
    [called |-> FALSE, md |-> EmptyRecord, result |-> FALSE, repeat |-> FALSE,
     cached |-> FALSE]

NoDecisions == [probe |-> EmptyRecord, results |-> {}]

(***************************************************************************)
(* ActivityTracker (src/activity.py).  Times are seconds of time.time().   *)
(***************************************************************************)
hot_duration == 300

cold_duration == 1200

DictDel(d, key) == [k \in (DOMAIN d) \ {key} |-> d[k]]

\* the test of get_activity for a recent score change
IsHot(change_times, match_id, current_time) ==
    /\ match_id \in DOMAIN change_times
    /\ current_time - change_times[match_id] < hot_duration

\* zero_score_start_times after a get_activity call
ZeroTimesAfterGet_DropWhenCold(change_times, zero_times, match_id, score, current_time) ==
    IF IsHot(change_times, match_id, current_time) THEN zero_times
    ELSE IF score.home + score.away = 0
    THEN IF match_id \notin DOMAIN zero_times
         THEN DictSet(zero_times, match_id, current_time)
         ELSE IF current_time - zero_times[match_id] >= cold_duration
         THEN DictDel(zero_times, match_id)
         ELSE zero_times
    ELSE DictDel(zero_times, match_id)

ZeroTimesAfterGet(change_times, zero_times, match_id, score, current_time) ==
    IF IsHot(change_times, match_id, current_time) THEN zero_times
    ELSE IF score.home + score.away = 0
    THEN IF match_id \notin DOMAIN zero_times
         THEN DictSet(zero_times, match_id, current_time)
         ELSE zero_times
    ELSE DictDel(zero_times, match_id)

\* the cold test of get_activity, made after the zero timer was started
IsCold_Late(zero_times, match_id, current_time) ==
    LET started == IF match_id \in DOMAIN zero_times
                   THEN zero_times[match_id] ELSE current_time
    IN  current_time - started > cold_duration

IsCold(zero_times, match_id, current_time) ==
    LET started == IF match_id \in DOMAIN zero_times
                   THEN zero_times[match_id] ELSE current_time
    IN  current_time - started >= cold_duration

\* the label get_activity returns
ActivityLabel_HotNeedsScore(change_times, zero_times, match_id, score, current_time) ==
    IF IsHot(change_times, match_id, current_time)
           /\ score.home + score.away # 0
    THEN "H"
    ELSE IF score.home + score.away = 0
                /\ IsCold(zero_times, match_id, current_time)
    THEN "C"
    ELSE "O"

ActivityLabel(change_times, zero_times, match_id, score, current_time) ==
    IF IsHot(change_times, match_id, current_time) THEN "H"
    ELSE IF score.home + score.away = 0
                /\ IsCold(zero_times, match_id, current_time)
    THEN "C"
    ELSE "O"

ActivityIds == {<<"1">>}

ActivityScores == {[home |-> 0, away |-> 0], [home |-> 1, away |-> 0]}

\* the seconds that may pass between two ActivityTracker calls
TimeSteps == {300}

\* the record of an ActivityTracker call: what was called, when, the timer
\* maps before it, the label returned, and whether it repeats the call
\* before it (same operation, match, score and instant)
ActRecord(op, match_id, score, label) ==
    [op |-> op, match_id |-> match_id, score |-> score, label |-> label,
     time |-> now, prev_change |-> score_change_times,
     prev_zero |-> zero_score_start_times,
     again |-> /\ act.op = op /\ act.match_id = match_id
               /\ act.score = score /\ act.time = now,
     prev_label |-> act.label]

NoAct == [op |-> "none", match_id |-> <<>>, score |-> [home |-> 0, away |-> 0],
          label |-> "", time |-> 0, prev_change |-> EmptyDict,
          prev_zero |-> EmptyDict, again |-> FALSE, prev_label |-> ""]

\* zero_watch of a match: `plain` while the match was only ever looked at
\* by get_activity with a 0-0 score; `first` the time of the first such
\* look, -1 before it
NoWatch == [m \in ActivityIds |-> [plain |-> TRUE, first |-> 0 - 1]]

Spoilt(match_id) == [zero_watch EXCEPT ![match_id].plain = FALSE]

(***************************************************************************)
(* ScoreTracker.process_match.  The notifier is the Notifier installed by  *)
(* set_notifier; `notifications` lists the events handed to its            *)
(* send_notification, in order.  process_match is called by track_matches  *)
(* with the key TableKey(record); table keys and filter keys are the       *)
(* string forms of the `id` field.                                         *)
(***************************************************************************)
calculate_score_diff_Absolute(prev_score, curr_score) ==
    LET prev_total == prev_score.home + prev_score.away
        curr_total == curr_score.home + curr_score.away
    IN  IF curr_total >= prev_total THEN curr_total - prev_total
        ELSE prev_total - curr_total

calculate_score_diff(prev_score, curr_score) ==
    LET prev_total == prev_score.home + prev_score.away
        curr_total == curr_score.home + curr_score.away
    IN  curr_total - prev_total

\* the key under which track_matches hands a record to process_match
TableKey(md) == IF md.id.t = "absent" THEN UnknownId ELSE PyStr(md.id)

\* whether process_match calls send_notification
NotifyDue_Strict(scores, match_id, current_score) ==
    /\ match_id \in DOMAIN scores
    /\ calculate_score_diff(scores[match_id], current_score)
           > config.notification_threshold

NotifyDue(scores, match_id, current_score) ==
    /\ match_id \in DOMAIN scores
    /\ calculate_score_diff(scores[match_id], current_score)
           >= config.notification_threshold

\* the arguments of the send_notification call
Notification(scores, match_id, md, current_score) ==
    [match          |-> md,
     score_diff     |-> calculate_score_diff(scores[match_id], current_score),
     previous_score |-> scores[match_id],
     current_score  |-> current_score]

\* try: ... except Exception: logger.error(...), seen from the caller
Logged(outcome) == "none"

\* the ways the delivery of a desktop notification can go
Deliveries == {"ok", "fails"}

\* the exception _send_desktop_notification raises: its whole body is
\* inside a handler
send_desktop_notification(delivery) ==
    Logged(IF delivery = "fails" THEN "Exception" ELSE "none")

\* the exception Notifier.send_notification raises
send_notification_Unprotected(delivery) ==
    IF delivery = "fails" THEN "Exception" ELSE "none"

send_notification(delivery) == Logged(send_desktop_notification(delivery))

\* last_scores after the final assignment of process_match
ScoresAfter_OnNotify(scores, match_id, current_score) ==
    IF match_id \notin DOMAIN scores \/ NotifyDue(scores, match_id, current_score)
    THEN DictSet(scores, match_id, current_score)
    ELSE scores

ScoresAfter(scores, match_id, current_score) ==
    DictSet(scores, match_id, current_score)

\* the record of a call: its arguments, the exception it raised, its number,
\* and the time, score table and number of notifications when it began
CallRecord(op, match_id, match_data, exc) ==
    [op |-> op, match_id |-> match_id, match_data |-> match_data, exc |-> exc,
     n |-> call.n + 1, time |-> now, prev_scores |-> last_scores,
     prev_count |-> Len(notifications)]

NoCall == [op |-> "none", match_id |-> <<>>, match_data |-> EmptyRecord,
           exc |-> "none", n |-> 0, time |-> 0, prev_scores |-> EmptyDict,
           prev_count |-> 0]

Pending == [exc |-> "pending", home |-> 0, away |-> 0]

\* no record has written the table key
NoWriter == [md |-> EmptyRecord, cycle |-> 0]

\* the states a thread and the callers of start() and stop() begin in
NoWorker ==
    [pc |-> "none", live |-> <<>>, i |-> 0, cycles |-> 0, did |-> "none",
     raised |-> FALSE, aborted |-> FALSE, after_abort |-> FALSE,
     delivery |-> "none", prev_writer |-> NoWriter]

\* no upstream fetch under way, an empty ScoreCache nobody called, no thread
NoRequest ==
    [pc |-> "idle", attempt |-> 0, log |-> <<>>, slept |-> <<>>,
     raised |-> FALSE, escaped |-> FALSE, result |-> "none"]

NoCacheCall ==
    [op |-> "none", match_id |-> <<>>, time |-> 0, before |-> EmptyDict,
     returned |-> [hit |-> FALSE, data |-> EmptyRecord]]

NoThreads == <<>>

ServiceIdle ==
    /\ request = NoRequest
    /\ score_cache = EmptyDict
    /\ cache_call = NoCacheCall
    /\ threads = NoThreads

NoMain == [pc |-> "idle", started |-> FALSE, stopped |-> FALSE,
           timed_out |-> FALSE]

\* the body of process_match; delivery is how the desktop notification goes
\* if one is sent
ProcessCore(match_id, match_data, delivery) ==
    /\ tracked_matches_info' = InfoAfterFilter(tracked_matches_info, match_data)
    /\ IF ~should_track_match(match_data)
       THEN /\ call' = CallRecord("process_match", match_id, match_data, "none")
            /\ UNCHANGED <<filtered_matches, last_scores, notifications>>
       ELSE LET current == extract_score(match_data)
                current_score == ScoreDict(current)
                due == NotifyDue(last_scores, match_id, current_score)
                sent == IF due THEN send_notification(delivery) ELSE "none"
            IN  /\ filtered_matches' =
                       FilteredAfterLog(filtered_matches, match_data)
                /\ IF current.exc # "none"
                   THEN /\ call' = CallRecord("process_match", match_id,
                                              match_data, current.exc)
                        /\ UNCHANGED <<last_scores, notifications>>
                   ELSE /\ call' = CallRecord("process_match", match_id,
                                              match_data, sent)
                        /\ notifications' =
                               IF due
                               THEN Append(notifications,
                                           Notification(last_scores, match_id,
                                                        match_data, current_score))
                               ELSE notifications
                        /\ last_scores' =
                               IF sent # "none" THEN last_scores
                               ELSE ScoresAfter(last_scores, match_id,
                                                current_score)
    /\ UNCHANGED <<config, now, score_change_times, zero_score_start_times,
                   ex_input, ex_result, activityLog, filterLog>>

ProcessMatch(match_id, match_data) ==
    /\ UNCHANGED serviceVars
    /\ call.n < MaxCalls
    /\ \E delivery \in Deliveries : ProcessCore(match_id, match_data, delivery)
    /\ UNCHANGED loopVars

\* the passage of time between two calls
Tick ==
    /\ UNCHANGED serviceVars
    /\ now < MaxTime
    /\ now' = now + 1
    /\ UNCHANGED <<config, last_scores, filtered_matches, tracked_matches_info,
                   score_change_times, zero_score_start_times, notifications,
                   call, ex_input, ex_result, activityLog,
                   filterLog, loopVars>>

Init ==
    /\ config \in Configs
    /\ now = 0
    /\ last_scores = EmptyDict
    /\ filtered_matches = {}
    /\ tracked_matches_info = EmptyDict
    /\ score_change_times = EmptyDict
    /\ zero_score_start_times = EmptyDict
    /\ notifications = <<>>
    /\ call = NoCall
    /\ ex_input = EmptyRecord
    /\ ex_result = Pending
    /\ act = NoAct
    /\ zero_watch = NoWatch
    /\ fcall = NoFilterCall
    /\ decided = NoDecisions
    /\ running = FALSE
    /\ worker = NoWorker
    /\ main = NoMain
    /\ stored_by = EmptyDict
    /\ ServiceIdle

Next ==
    \/ \E md \in RawRecords : ProcessMatch(TableKey(md), md)
    \/ Tick

Spec == Init /\ [][Next]_vars

(***************************************************************************)
(* A stand-alone extract_score call on one record of ExtractInputs.        *)
(***************************************************************************)
ExtractScore ==
    /\ UNCHANGED serviceVars
    /\ ex_result = Pending
    /\ ex_result' = extract_score(ex_input)
    /\ UNCHANGED <<config, now, last_scores, filtered_matches,
                   tracked_matches_info, score_change_times,
                   zero_score_start_times, notifications, call, ex_input,
                   activityLog,
                   filterLog, loopVars>>

InitExtract ==
    /\ config = DefaultConfig
    /\ now = 0
    /\ last_scores = EmptyDict
    /\ filtered_matches = {}
    /\ tracked_matches_info = EmptyDict
    /\ score_change_times = EmptyDict
    /\ zero_score_start_times = EmptyDict
    /\ notifications = <<>>
    /\ call = NoCall
    /\ ex_input \in ExtractInputs
    /\ ex_result = Pending
    /\ act = NoAct
    /\ zero_watch = NoWatch
    /\ fcall = NoFilterCall
    /\ decided = NoDecisions
    /\ running = FALSE
    /\ worker = NoWorker
    /\ main = NoMain
    /\ stored_by = EmptyDict
    /\ ServiceIdle

NextExtract == ExtractScore

SpecExtract == InitExtract /\ [][NextExtract]_vars

(***************************************************************************)
(* The ActivityTracker on its own: its four methods called in any order,   *)
(* with time passing between the calls.                                    *)
(***************************************************************************)
trackerVars == <<config, last_scores, filtered_matches, tracked_matches_info,
                 notifications, call, ex_input, ex_result>>

RecordScoreChange(match_id) ==
    /\ UNCHANGED serviceVars
    /\ score_change_times' = DictSet(score_change_times, match_id, now)
    /\ zero_score_start_times' = DictDel(zero_score_start_times, match_id)
    /\ act' = ActRecord("record_score_change", match_id,
                        [home |-> 0, away |-> 0], "")
    /\ zero_watch' = Spoilt(match_id)
    /\ UNCHANGED <<now, trackerVars, filterLog, loopVars>>

RecordZeroScore(match_id, current_score) ==
    /\ UNCHANGED serviceVars
    /\ zero_score_start_times' =
           IF current_score.home + current_score.away = 0
                  /\ match_id \notin DOMAIN zero_score_start_times
           THEN DictSet(zero_score_start_times, match_id, now)
           ELSE zero_score_start_times
    /\ act' = ActRecord("record_zero_score", match_id, current_score, "")
    /\ zero_watch' = Spoilt(match_id)
    /\ UNCHANGED <<now, score_change_times, trackerVars, filterLog, loopVars>>

RemoveMatch(match_id) ==
    /\ UNCHANGED serviceVars
    /\ score_change_times' = DictDel(score_change_times, match_id)
    /\ zero_score_start_times' = DictDel(zero_score_start_times, match_id)
    /\ act' = ActRecord("remove_match", match_id, [home |-> 0, away |-> 0], "")
    /\ zero_watch' = Spoilt(match_id)
    /\ UNCHANGED <<now, trackerVars, filterLog, loopVars>>

GetActivity(match_id, current_score) ==
    /\ UNCHANGED serviceVars
    /\ zero_score_start_times' =
           ZeroTimesAfterGet(score_change_times, zero_score_start_times,
                             match_id, current_score, now)
    /\ act' = ActRecord("get_activity", match_id, current_score,
                        ActivityLabel(score_change_times,
                                      zero_score_start_times',
                                      match_id, current_score, now))
    /\ zero_watch' =
           IF current_score.home + current_score.away # 0 THEN Spoilt(match_id)
           ELSE IF zero_watch[match_id].first < 0
           THEN [zero_watch EXCEPT ![match_id].first = now]
           ELSE zero_watch
    /\ UNCHANGED <<now, score_change_times, trackerVars, filterLog, loopVars>>

\* time passes between two calls
Advance(d) ==
    /\ UNCHANGED serviceVars
    /\ now + d <= MaxClock
    /\ now' = now + d
    /\ UNCHANGED <<score_change_times, zero_score_start_times, trackerVars,
                   activityLog,
                   filterLog, loopVars>>

InitActivity ==
    /\ config = DefaultConfig
    /\ now = 0
    /\ last_scores = EmptyDict
    /\ filtered_matches = {}
    /\ tracked_matches_info = EmptyDict
    /\ score_change_times = EmptyDict
    /\ zero_score_start_times = EmptyDict
    /\ notifications = <<>>
    /\ call = NoCall
    /\ ex_input = EmptyRecord
    /\ ex_result = Pending
    /\ act = NoAct
    /\ zero_watch = NoWatch
    /\ fcall = NoFilterCall
    /\ decided = NoDecisions
    /\ running = FALSE
    /\ worker = NoWorker
    /\ main = NoMain
    /\ stored_by = EmptyDict
    /\ ServiceIdle

NextActivity ==
    \/ \E m \in ActivityIds : RecordScoreChange(m)
    \/ \E m \in ActivityIds, sc \in ActivityScores : RecordZeroScore(m, sc)
    \/ \E m \in ActivityIds : RemoveMatch(m)
    \/ \E m \in ActivityIds, sc \in ActivityScores : GetActivity(m, sc)
    \/ \E d \in TimeSteps : Advance(d)

SpecActivity == InitActivity /\ [][NextActivity]_vars

(***************************************************************************)
(* The match filter on its own: should_track_match called again and again  *)
(* with one record, any record of FilterRecords, between process_match     *)
(* calls that fill the score table, the filtered-match set and the         *)
(* tracked-match cache.                                                    *)
(***************************************************************************)
ShouldTrackMatch(md) ==
    /\ UNCHANGED serviceVars
    /\ fcall' = [called |-> TRUE, md |-> md, result |-> should_track_match(md),
                 repeat |-> decided.results # {},
                 cached |-> FilterId(md) \in DOMAIN tracked_matches_info]
    /\ decided' = [decided EXCEPT !.results = @ \cup {should_track_match(md)}]
    /\ tracked_matches_info' = InfoAfterFilter(tracked_matches_info, md)
    /\ UNCHANGED <<config, now, last_scores, filtered_matches,
                   score_change_times, zero_score_start_times, notifications,
                   call, ex_input, ex_result, activityLog, loopVars>>

InitFilter ==
    /\ config \in FilterConfigs
    /\ now = 0
    /\ last_scores = EmptyDict
    /\ filtered_matches = {}
    /\ tracked_matches_info = EmptyDict
    /\ score_change_times = EmptyDict
    /\ zero_score_start_times = EmptyDict
    /\ notifications = <<>>
    /\ call = NoCall
    /\ ex_input = EmptyRecord
    /\ ex_result = Pending
    /\ act = NoAct
    /\ zero_watch = NoWatch
    /\ fcall = NoFilterCall
    /\ \E md \in FilterRecords : decided = [probe |-> md, results |-> {}]
    /\ running = FALSE
    /\ worker = NoWorker
    /\ main = NoMain
    /\ stored_by = EmptyDict
    /\ ServiceIdle

NextFilter ==
    \/ ShouldTrackMatch(decided.probe)
    \/ \E md \in FilterRecords : ProcessMatch(TableKey(md), md)

SpecFilter == InitFilter /\ [][NextFilter]_vars

(***************************************************************************)
(* ScoreTracker.track_matches, start and stop.  start() is called first;   *)
(* after stop() the callers make no further call.  The worker thread runs  *)
(* the loop of track_matches one step at a time: the test of the running   *)
(* flag with the live fetch, one match of the list, the scheduled-match    *)
(* display, the status summary with the cache purge, and the sleep.        *)
(***************************************************************************)
LiveA == WithScore(MetaA, JStr(<<"1">>), <<"0", "-", "0">>)

LiveARise == WithScore(MetaA, JStr(<<"1">>), <<"2", "-", "0">>)

LiveB == WithScore(MetaB, JStr(<<"2">>), <<"0", "-", "0">>)

NoIdA == WithScore(MetaA, Absent, <<"0", "-", "0">>)

NoIdB == WithScore(MetaB, Absent, <<"0", "-", "3">>)

\* the answers of the upstream API to scores/live.json; the empty list is
\* also what get_live_matches returns when the request fails
LiveLists ==
    {<<>>, <<LiveA, LiveB>>, <<LiveARise, LiveB>>, <<NoIdA, NoIdB>>,
     <<LiveA, NoIdB>>}

LoopConfigs ==
    {DefaultConfig,
     [DefaultConfig EXCEPT !.tracked_match_ids = {<<"1">>},
                           !.exclude_teams = {<<"A", "B">>}]}

\* the list match_ids of track_matches
RECURSIVE MatchIds(_)
MatchIds(live_matches) ==
    IF live_matches = <<>> THEN <<>>
    ELSE LET match == Head(live_matches)
         IN  (IF match.id.t # "absent" THEN <<PyStr(match.id)>> ELSE <<>>)
                 \o MatchIds(Tail(live_matches))

\* LiveScoreAPI.get_match_score on the answer `matches` of its own request;
\* {} is the record without any key
RECURSIVE get_match_score(_, _)
get_match_score(match_id, matches) ==
    IF matches = <<>> THEN EmptyRecord
    ELSE LET match == Head(matches)
             id == IF match.id.t = "absent" THEN <<"N", "o", "n", "e">>
                   ELSE PyStr(match.id)
         IN  IF id = match_id THEN match
             ELSE get_match_score(match_id, Tail(matches))

\* tracked_matches_info after display_match_status_summary, which asks
\* should_track_match about every live match
RECURSIVE InfoAfterSummary(_, _)
InfoAfterSummary(info, live_matches) ==
    IF live_matches = <<>> THEN info
    ELSE InfoAfterSummary(InfoAfterFilter(info, Head(live_matches)),
                          Tail(live_matches))

\* while self.running
LoopContinues_Always(flag) == TRUE

LoopContinues(flag) == flag

\* where the worker is after an error reached the handler around the cycle
AfterCycleError_Unhandled == "crashed"

AfterCycleError == "sleep"

\* threading.Thread.is_alive
Alive(thread) == thread.pc \notin {"none", "exited", "crashed"}

\* two records of the same real-world match
SameMatch(a, b) ==
    /\ a.id = b.id
    /\ HomeName(a, Unknown) = HomeName(b, Unknown)
    /\ AwayName(a, Unknown) = AwayName(b, Unknown)

loopFree == <<config, now, last_scores, filtered_matches, tracked_matches_info,
              score_change_times, zero_score_start_times, notifications, call,
              ex_input, ex_result, activityLog, filterLog>>

Start ==
    /\ UNCHANGED serviceVars
    /\ main.pc = "idle"
    /\ ~main.stopped
    /\ IF running
       THEN UNCHANGED <<running, worker, main>>
       ELSE /\ running' = TRUE
            /\ worker' = [NoWorker EXCEPT !.pc = "top"]
            /\ main' = [main EXCEPT !.started = TRUE]
    /\ UNCHANGED <<stored_by, loopFree>>

Stop ==
    /\ UNCHANGED serviceVars
    /\ main.pc = "idle"
    /\ main.started
    /\ ~main.stopped
    /\ running' = FALSE
    /\ main' = [main EXCEPT !.stopped = TRUE,
                            !.pc = IF Alive(worker) THEN "joining" ELSE "idle"]
    /\ UNCHANGED <<worker, stored_by, loopFree>>

\* join(timeout=5.0) returns: the worker has ended or the five seconds are over
JoinReturn ==
    /\ UNCHANGED serviceVars
    /\ main.pc = "joining"
    /\ main' = [main EXCEPT !.pc = "idle", !.timed_out = Alive(worker)]
    /\ UNCHANGED <<running, worker, stored_by, loopFree>>

\* the worker's record after a step
Stepped(did, pc) ==
    [worker EXCEPT !.pc = pc, !.did = did, !.raised = FALSE,
                   !.delivery = "none", !.prev_writer = NoWriter]

TopOfLoop(fetched) ==
    /\ UNCHANGED serviceVars
    /\ worker.pc = "top"
    /\ IF ~LoopContinues(running)
       THEN worker' = Stepped("exit", "exited")
       ELSE /\ worker.cycles < MaxCycles
            /\ worker' =
                   [Stepped("fetch", IF fetched = <<>> THEN "scheduled"
                                     ELSE "process")
                       EXCEPT !.live = fetched, !.i = 1, !.cycles = @ + 1,
                              !.aborted = FALSE,
                              !.after_abort = worker.aborted]
    /\ UNCHANGED <<running, main, stored_by, loopFree>>

\* one match of the cycle.  refetched is the answer to the request of
\* get_match_score; fault tells that process_match raises before it changes
\* anything; delivery is how a desktop notification goes
ProcessNext(refetched, fault, delivery) ==
    /\ UNCHANGED serviceVars
    /\ worker.pc = "process"
    /\ LET match_ids == MatchIds(worker.live)
           direct == match_ids = <<>>
           count == IF direct THEN Len(worker.live) ELSE Len(match_ids)
           match_id == IF direct THEN TableKey(worker.live[worker.i])
                       ELSE match_ids[worker.i]
           match_data == IF direct THEN worker.live[worker.i]
                         ELSE get_match_score(match_id, refetched)
           next_pc == IF worker.i + 1 > count THEN "summary" ELSE "process"
           scored == /\ should_track_match(match_data)
                     /\ extract_score(match_data).exc = "none"
           diffed == scored /\ match_id \in DOMAIN last_scores
           due == /\ scored
                  /\ NotifyDue(last_scores, match_id,
                               ScoreDict(extract_score(match_data)))
           went_on == [Stepped("process", next_pc) EXCEPT !.i = @ + 1]
           gave_up == [Stepped("process", AfterCycleError)
                           EXCEPT !.aborted = TRUE]
       IN  IF ~direct /\ match_data = EmptyRecord
           THEN /\ worker' = [went_on EXCEPT !.did = "skip"]
                /\ UNCHANGED <<stored_by, loopFree>>
           ELSE IF fault
           THEN /\ worker' = [(IF direct THEN gave_up ELSE went_on)
                                  EXCEPT !.raised = TRUE]
                /\ UNCHANGED <<stored_by, loopFree>>
           ELSE /\ ProcessCore(match_id, match_data, delivery)
                /\ worker' =
                       [(IF direct /\ call'.exc # "none" THEN gave_up
                         ELSE went_on)
                           EXCEPT !.raised = call'.exc # "none",
                                  !.delivery = IF due THEN delivery ELSE "none",
                                  !.prev_writer = IF diffed
                                                  THEN stored_by[match_id]
                                                  ELSE NoWriter]
                /\ stored_by' =
                       IF scored /\ call'.exc = "none"
                       THEN DictSet(stored_by, match_id,
                                    [md |-> match_data, cycle |-> worker.cycles])
                       ELSE stored_by
    /\ UNCHANGED <<running, main>>

\* no live match: the scheduled matches are fetched and displayed; fault
\* tells that the display raises
ShowScheduled(fault) ==
    /\ UNCHANGED serviceVars
    /\ worker.pc = "scheduled"
    /\ worker' = IF fault
                 THEN [Stepped("scheduled", AfterCycleError)
                           EXCEPT !.raised = TRUE, !.aborted = TRUE]
                 ELSE Stepped("scheduled", "summary")
    /\ UNCHANGED <<running, main, stored_by, loopFree>>

\* display_match_status_summary and score_cache.clear_expired; fault tells
\* that one of them raises after the filter was asked about the live matches
Summary(fault) ==
    /\ UNCHANGED serviceVars
    /\ worker.pc = "summary"
    /\ tracked_matches_info' =
           InfoAfterSummary(tracked_matches_info, worker.live)
    /\ worker' = IF fault
                 THEN [Stepped("summary", AfterCycleError)
                           EXCEPT !.raised = TRUE, !.aborted = TRUE]
                 ELSE Stepped("summary", "sleep")
    /\ UNCHANGED <<running, main, stored_by, config, now, last_scores,
                   filtered_matches, score_change_times,
                   zero_score_start_times, notifications, call, ex_input,
                   ex_result, activityLog, filterLog>>

\* time.sleep(polling_interval) returns
WakeUp ==
    /\ UNCHANGED serviceVars
    /\ worker.pc = "sleep"
    /\ worker' = Stepped("sleep", "top")
    /\ UNCHANGED <<running, main, stored_by, loopFree>>

InitLoop ==
    /\ config \in LoopConfigs
    /\ now = 0
    /\ last_scores = EmptyDict
    /\ filtered_matches = {}
    /\ tracked_matches_info = EmptyDict
    /\ score_change_times = EmptyDict
    /\ zero_score_start_times = EmptyDict
    /\ notifications = <<>>
    /\ call = NoCall
    /\ ex_input = EmptyRecord
    /\ ex_result = Pending
    /\ act = NoAct
    /\ zero_watch = NoWatch
    /\ fcall = NoFilterCall
    /\ decided = NoDecisions
    /\ running = FALSE
    /\ worker = NoWorker
    /\ main = NoMain
    /\ stored_by = EmptyDict
    /\ ServiceIdle

WorkerStep ==
    \/ \E fetched \in LiveLists : TopOfLoop(fetched)
    \/ \E refetched \in LiveLists, fault \in BOOLEAN, delivery \in Deliveries :
           ProcessNext(refetched, fault, delivery)
    \/ \E fault \in BOOLEAN : ShowScheduled(fault)
    \/ \E fault \in BOOLEAN : Summary(fault)
    \/ WakeUp

NextLoop ==
    \/ Start
    \/ Stop
    \/ JoinReturn
    \/ WorkerStep

SpecLoop == InitLoop /\ [][NextLoop]_vars

\* a step of the worker for fairness.  The step that handles a match is
\* enabled exactly when its variant in which process_match raises at once
\* is, and a cycle handles finitely many matches, so that fairness of
\* WorkerTurn is fairness of WorkerStep.
WorkerTurn ==
    \/ \E fetched \in LiveLists : TopOfLoop(fetched)
    \/ \E refetched \in LiveLists : ProcessNext(refetched, TRUE, "ok")
    \/ \E fault \in BOOLEAN : ShowScheduled(fault)
    \/ \E fault \in BOOLEAN : Summary(fault)
    \/ WakeUp

\* the thread is scheduled, its requests time out and its sleep ends; join
\* returns after five seconds at the latest
SpecLoopFair == SpecLoop /\ WF_vars(WorkerTurn) /\ WF_vars(JoinReturn)

(***************************************************************************)
(* LiveScoreAPI.get_live_matches and _make_request: one upstream fetch.    *)
(* A response is what one session.get brings: "matches" (a JSON body with  *)
(* a match list), "odd" (a JSON body without one), "http_error" (a         *)
(* requests.RequestException: no connection, timeout, bad status) or       *)
(* "api_error" (a body with success = false).  request.log lists the       *)
(* responses of the attempts and request.slept the time.sleep calls.       *)
(***************************************************************************)
Responses == {"matches", "odd", "http_error", "api_error"}

Failures == {"http_error", "api_error"}

RequestConfigs ==
    {[DefaultConfig EXCEPT !.max_retries = r, !.retry_delay = d] :
        r \in 0..MaxRetries, d \in 1..MaxDelay}

Backoff_Linear(retry_delay, attempt) == retry_delay * (attempt + 1)

Backoff(retry_delay, attempt) == retry_delay * 2^attempt

\* what get_live_matches does with the exception of _make_request
AfterAllFailed_Raise(req) == [req EXCEPT !.pc = "done", !.raised = TRUE, !.escaped = TRUE]

AfterAllFailed(req) == [req EXCEPT !.pc = "done", !.raised = TRUE, !.result = "empty"]

requestFree == <<config, last_scores, filtered_matches, tracked_matches_info,
                 score_change_times, zero_score_start_times, notifications,
                 call, ex_input, ex_result, activityLog, filterLog, loopVars,
                 score_cache, cache_call, threads>>

\* the call, up to the first test of `for attempt in range(max_retries)`
GetLiveMatches ==
    /\ request.pc = "idle"
    /\ request' = IF config.max_retries = 0
                  THEN AfterAllFailed(request)
                  ELSE [request EXCEPT !.pc = "attempt"]
    /\ UNCHANGED <<now, requestFree>>

\* one pass of the loop body, up to the return or into the time.sleep
Attempt(response) ==
    /\ request.pc = "attempt"
    /\ IF response \in Failures
       THEN /\ request' = [request EXCEPT
                   !.pc = "sleeping",
                   !.log = Append(@, response),
                   !.slept = Append(@, Backoff(config.retry_delay, request.attempt))]
            /\ now' = now + Backoff(config.retry_delay, request.attempt)
       ELSE /\ request' = [request EXCEPT
                   !.pc = "done",
                   !.log = Append(@, response),
                   !.result = IF response = "matches" THEN "list" ELSE "empty"]
            /\ now' = now
    /\ UNCHANGED requestFree

\* the sleep is over: the next attempt, or the raise that get_live_matches
\* catches
AfterSleep ==
    /\ request.pc = "sleeping"
    /\ request' = IF request.attempt + 1 < config.max_retries
                  THEN [request EXCEPT !.pc = "attempt", !.attempt = @ + 1]
                  ELSE AfterAllFailed([request EXCEPT !.attempt = @ + 1])
    /\ UNCHANGED <<now, requestFree>>

InitRequest ==
    /\ config \in RequestConfigs
    /\ now = 0
    /\ last_scores = EmptyDict
    /\ filtered_matches = {}
    /\ tracked_matches_info = EmptyDict
    /\ score_change_times = EmptyDict
    /\ zero_score_start_times = EmptyDict
    /\ notifications = <<>>
    /\ call = NoCall
    /\ ex_input = EmptyRecord
    /\ ex_result = Pending
    /\ act = NoAct
    /\ zero_watch = NoWatch
    /\ fcall = NoFilterCall
    /\ decided = NoDecisions
    /\ running = FALSE
    /\ worker = NoWorker
    /\ main = NoMain
    /\ stored_by = EmptyDict
    /\ ServiceIdle

NextRequest ==
    \/ GetLiveMatches
    \/ \E response \in Responses : Attempt(response)
    \/ AfterSleep

SpecRequest == InitRequest /\ [][NextRequest]_vars

(***************************************************************************)
(* ScoreCache: set, get and clear_expired called in any order while time   *)
(* passes.  An entry is [data, timestamp]; a get returns [hit, data], with *)
(* hit false for None.                                                     *)
(***************************************************************************)
CacheIds == {<<"1">>, <<"2">>}

CacheData == {MetaA, MetaB}

CacheConfigs == {[DefaultConfig EXCEPT !.cache_expiry = e] : e \in 1..MaxExpiry}

Miss == [hit |-> FALSE, data |-> EmptyRecord]

\* the test of get
ExpiredAtGet_AtExpiry(entry, t) == t - entry.timestamp >= config.cache_expiry

ExpiredAtGet(entry, t) == t - entry.timestamp > config.cache_expiry

\* the test of clear_expired
ExpiredAtPurge_AtExpiry(entry, t) == t - entry.timestamp >= config.cache_expiry

ExpiredAtPurge(entry, t) == t - entry.timestamp > config.cache_expiry

CacheGetResult(cache, match_id, t) ==
    IF match_id \notin DOMAIN cache THEN Miss
    ELSE IF ExpiredAtGet(cache[match_id], t) THEN Miss
    ELSE [hit |-> TRUE, data |-> cache[match_id].data]

CacheAfterGet_Keep(cache, match_id, t) == cache

CacheAfterGet(cache, match_id, t) ==
    IF match_id \in DOMAIN cache /\ ExpiredAtGet(cache[match_id], t)
    THEN DictDel(cache, match_id)
    ELSE cache

CacheAfterPurge(cache, t) ==
    [k \in {x \in DOMAIN cache : ~ExpiredAtPurge(cache[x], t)} |-> cache[k]]

CacheCall(op, match_id, returned) ==
    [op |-> op, match_id |-> match_id, time |-> now, before |-> score_cache,
     returned |-> returned]

cacheFree == <<config, last_scores, filtered_matches, tracked_matches_info,
               score_change_times, zero_score_start_times, notifications,
               call, ex_input, ex_result, activityLog, filterLog, loopVars,
               request, threads>>

CacheSet(match_id, data) ==
    /\ score_cache' = DictSet(score_cache, match_id,
                              [data |-> data, timestamp |-> now])
    /\ cache_call' = CacheCall("set", match_id, Miss)
    /\ UNCHANGED <<now, cacheFree>>

CacheGet(match_id) ==
    /\ score_cache' = CacheAfterGet(score_cache, match_id, now)
    /\ cache_call' = CacheCall("get", match_id,
                               CacheGetResult(score_cache, match_id, now))
    /\ UNCHANGED <<now, cacheFree>>

ClearExpired ==
    /\ score_cache' = CacheAfterPurge(score_cache, now)
    /\ cache_call' = CacheCall("clear_expired", <<>>, Miss)
    /\ UNCHANGED <<now, cacheFree>>

CacheTick ==
    /\ now < MaxCacheClock
    /\ now' = now + 1
    /\ UNCHANGED <<score_cache, cache_call, cacheFree>>

InitCache ==
    /\ config \in CacheConfigs
    /\ now = 0
    /\ last_scores = EmptyDict
    /\ filtered_matches = {}
    /\ tracked_matches_info = EmptyDict
    /\ score_change_times = EmptyDict
    /\ zero_score_start_times = EmptyDict
    /\ notifications = <<>>
    /\ call = NoCall
    /\ ex_input = EmptyRecord
    /\ ex_result = Pending
    /\ act = NoAct
    /\ zero_watch = NoWatch
    /\ fcall = NoFilterCall
    /\ decided = NoDecisions
    /\ running = FALSE
    /\ worker = NoWorker
    /\ main = NoMain
    /\ stored_by = EmptyDict
    /\ ServiceIdle

NextCache ==
    \/ \E match_id \in CacheIds, data \in CacheData : CacheSet(match_id, data)
    \/ \E match_id \in CacheIds : CacheGet(match_id)
    \/ ClearExpired
    \/ CacheTick

SpecCache == InitCache /\ [][NextCache]_vars

(***************************************************************************)
(* start() and stop() called in any order, start() after stop() included.  *)
(* threads lists the threads start() created; track_thread is the last of  *)
(* them.  A thread is at the test of `while self.running` ("top"), inside  *)
(* the try block of a cycle ("cycle"), in the sleep that ends a cycle      *)
(* ("sleep"), or has left track_matches ("exited").  A cycle is cut down   *)
(* to one process_match call.  join(timeout=5.0) returns when the thread   *)
(* has ended or when the five seconds are over, whichever comes first; the *)
(* five seconds can pass while the thread is inside a cycle or asleep, and *)
(* a thread at the test of the flag is taken to get there first.           *)
(***************************************************************************)
NewThread == [pc |-> "top", cycles |-> 0]

ThreadRecords == {LiveA, LiveARise}

threadFree == <<config, now, last_scores, filtered_matches,
                tracked_matches_info, score_change_times,
                zero_score_start_times, notifications, call, ex_input,
                ex_result, activityLog, filterLog, worker, stored_by, request,
                score_cache, cache_call>>

TrackerStart ==
    /\ main.pc = "idle"
    /\ IF running
       THEN UNCHANGED <<running, threads, main>>
       ELSE /\ Len(threads) < MaxThreads
            /\ running' = TRUE
            /\ threads' = Append(threads, NewThread)
            /\ main' = [main EXCEPT !.started = TRUE]
    /\ UNCHANGED threadFree

TrackerStop ==
    /\ main.pc = "idle"
    /\ running' = FALSE
    /\ main' = [main EXCEPT
           !.stopped = TRUE,
           !.pc = IF threads # <<>> /\ Alive(threads[Len(threads)])
                  THEN "joining" ELSE "idle"]
    /\ UNCHANGED <<threads, threadFree>>

TrackerJoinReturn ==
    /\ main.pc = "joining"
    /\ threads[Len(threads)].pc # "top"
    /\ main' = [main EXCEPT !.pc = "idle",
                            !.timed_out = Alive(threads[Len(threads)])]
    /\ UNCHANGED <<running, threads, threadFree>>

\* the test of `while self.running`
ThreadTop(i) ==
    /\ threads[i].pc = "top"
    /\ IF running
       THEN /\ threads[i].cycles < MaxCycles
            /\ threads' = [threads EXCEPT ![i].pc = "cycle"]
       ELSE threads' = [threads EXCEPT ![i].pc = "exited"]
    /\ UNCHANGED <<running, main, threadFree>>

\* the body of a cycle: the match it processes
ThreadCycle(i, md) ==
    /\ threads[i].pc = "cycle"
    /\ ProcessCore(TableKey(md), md, "ok")
    /\ threads' = [threads EXCEPT ![i].pc = "sleep", ![i].cycles = @ + 1]
    /\ UNCHANGED <<running, main, worker, stored_by, request, score_cache,
                   cache_call>>

\* time.sleep(polling_interval) is over
ThreadWake(i) ==
    /\ threads[i].pc = "sleep"
    /\ threads' = [threads EXCEPT ![i].pc = "top"]
    /\ UNCHANGED <<running, main, threadFree>>

InitThreads ==
    /\ config = DefaultConfig
    /\ now = 0
    /\ last_scores = EmptyDict
    /\ filtered_matches = {}
    /\ tracked_matches_info = EmptyDict
    /\ score_change_times = EmptyDict
    /\ zero_score_start_times = EmptyDict
    /\ notifications = <<>>
    /\ call = NoCall
    /\ ex_input = EmptyRecord
    /\ ex_result = Pending
    /\ act = NoAct
    /\ zero_watch = NoWatch
    /\ fcall = NoFilterCall
    /\ decided = NoDecisions
    /\ running = FALSE
    /\ worker = NoWorker
    /\ main = NoMain
    /\ stored_by = EmptyDict
    /\ ServiceIdle

NextThreads ==
    \/ TrackerStart
    \/ TrackerStop
    \/ TrackerJoinReturn
    \/ \E i \in DOMAIN threads : ThreadTop(i)
    \/ \E i \in DOMAIN threads, md \in ThreadRecords : ThreadCycle(i, md)
    \/ \E i \in DOMAIN threads : ThreadWake(i)

SpecThreads == InitThreads /\ [][NextThreads]_vars

(***************************************************************************)
(* Properties of process_match.                                            *)
(***************************************************************************)
Total(score) == score.home + score.away

\* the last call was a process_match call on a record the filter accepts
AcceptedCall == call.op = "process_match" /\ should_track_match(call.match_data)

\* the score of the record of the last call
CallScore == ScoreDict(extract_score(call.match_data))

\* the last call handed an event to the notifier
CallNotified == Len(notifications) = call.prev_count + 1

\* C1: a process_match call on an accepted record emits a notification
\* exactly when the identity had an entry in the score table before the call
\* and the total of the record's score exceeds the total of that entry by at
\* least notification_threshold; the event carries the record, the diff, the
\* previous and the current score; a first observation emits nothing.
C1_NotifyIffThreshold ==
    AcceptedCall =>
        LET known == call.match_id \in DOMAIN call.prev_scores
            previous == call.prev_scores[call.match_id]
        IN  /\ CallNotified <=>
                   /\ known
                   /\ Total(CallScore) - Total(previous)
                          >= config.notification_threshold
            /\ ~CallNotified => Len(notifications) = call.prev_count
            /\ CallNotified =>
                   notifications[Len(notifications)] =
                       [match          |-> call.match_data,
                        score_diff     |-> Total(CallScore) - Total(previous),
                        previous_score |-> previous,
                        current_score  |-> CallScore]
            /\ ~known => ~CallNotified

\* 0-0 then 2-0 for identity "1" with threshold 2: one event, diff 2
C1_Witness ==
    /\ config.notification_threshold = 2
    /\ call.n = 2
    /\ AcceptedCall
    /\ call.match_id = <<"1">>
    /\ call.prev_scores = (<<"1">> :> [home |-> 0, away |-> 0])
    /\ Len(notifications) = 1
    /\ notifications[1].score_diff = 2
    /\ notifications[1].previous_score = [home |-> 0, away |-> 0]
    /\ notifications[1].current_score = [home |-> 2, away |-> 0]

\* C2: after a process_match call on an accepted record the score table
\* holds, for that identity, the score extracted from the record, whether or
\* not a notification was emitted.
C2_TableHoldsCurrentScore ==
    AcceptedCall =>
        /\ call.match_id \in DOMAIN last_scores
        /\ last_scores[call.match_id] = CallScore

\* 0-0 then 2-0 with threshold 3: nothing emitted, the table holds 2-0
C2_Witness ==
    /\ config.notification_threshold = 3
    /\ AcceptedCall
    /\ call.match_id = <<"1">>
    /\ call.prev_scores = (<<"1">> :> [home |-> 0, away |-> 0])
    /\ notifications = <<>>
    /\ last_scores[<<"1">>] = [home |-> 2, away |-> 0]

\* C3: a process_match call whose current total is below the stored total
\* emits nothing and stores the lower score.
C3_DecreaseAbsorbed ==
    (/\ AcceptedCall
     /\ call.match_id \in DOMAIN call.prev_scores
     /\ Total(CallScore) < Total(call.prev_scores[call.match_id]))
    => /\ Len(notifications) = call.prev_count
       /\ last_scores[call.match_id] = CallScore

\* 2-0 then 1-0: a decrease as large as the threshold
C3_Witness ==
    /\ AcceptedCall
    /\ call.match_id \in DOMAIN call.prev_scores
    /\ Total(call.prev_scores[call.match_id]) - Total(CallScore)
           >= config.notification_threshold
    /\ last_scores[call.match_id] = CallScore

\* C4: a process_match call on a record the filter rejects changes neither
\* the score table, the filtered-match set, the tracked-match-info cache, the
\* activity timers nor the notifications.
C4_RejectChangesNothing ==
    [][(call'.n = call.n + 1 /\ call'.op = "process_match"
            /\ ~should_track_match(call'.match_data))
        => UNCHANGED <<last_scores, filtered_matches, tracked_matches_info,
                       score_change_times, zero_score_start_times,
                       notifications>>]_vars

\* a rejected call made when the tables already hold entries
C4_Witness ==
    /\ call.op = "process_match"
    /\ ~should_track_match(call.match_data)
    /\ last_scores # EmptyDict
    /\ filtered_matches # {}
    /\ FilterId(call.match_data) \notin DOMAIN tracked_matches_info

\* C5: a process_match call on an accepted record feeds the activity
\* tracker: a positive diff sets the match's last score change time to the
\* time of the call, and otherwise a total of 0 starts the zero-score timer.
C5_FeedsActivityTracker ==
    AcceptedCall =>
        LET known == call.match_id \in DOMAIN call.prev_scores
            rose  == known /\ Total(CallScore)
                                  > Total(call.prev_scores[call.match_id])
        IN  /\ rose => /\ call.match_id \in DOMAIN score_change_times
                       /\ score_change_times[call.match_id] = call.time
            /\ (~rose /\ Total(CallScore) = 0)
                   => call.match_id \in DOMAIN zero_score_start_times

(***************************************************************************)
(* Properties of extract_score.                                            *)
(***************************************************************************)
\* the stand-alone extract_score call has returned or raised
Extracted == ex_result # Pending

\* the `score` field of the input is the text "a-b" of integers a and b
IsFormatted(a, b) ==
    ex_input.score.t = "str" /\ ex_input.score.s = FormatScore(a, b)

\* C6 as stated: for a `score` string "a-b" with a and b integers of any
\* sign, extract_score returns {home: a, away: b}.
C6_AnySign ==
    Extracted =>
        \A a, b \in (0 - MaxInt)..MaxInt :
            IsFormatted(a, b) => ex_result = Score(a, b)

\* C6: for a `score` string "a-b" with a and b non-negative integers,
\* extract_score returns {home: a, away: b}.
C6_NonNegativePair ==
    Extracted =>
        \A a, b \in 0..MaxInt :
            IsFormatted(a, b) => ex_result = Score(a, b)

\* "10-2" has been extracted as {10, 2}
C6_Witness ==
    /\ Extracted
    /\ IsFormatted(10, 2)
    /\ ex_result = Score(10, 2)

\* the input has no `score` string containing "-"
NoScoreString ==
    ~(ex_input.score.t = "str" /\ HasChar(ex_input.score.s, "-"))

HasPair(h, a) == h.t # "absent" /\ a.t # "absent"

\* the integer a fallback field stands for: its decimal value, 0 when the
\* field is missing, empty or not a number
FieldValue(v) ==
    IF v.t = "int" THEN v.n
    ELSE IF v.t = "str" /\ PyInt(v.s).ok THEN PyInt(v.s).val
    ELSE 0

\* C7: when the record has no `score` string containing "-" (the key may be
\* missing), extract_score returns the first applicable fallback:
\* fs_home/fs_away, then home_score/away_score, then scores.home_score /
\* scores.away_score.
C7_FallbackPrecedence ==
    (Extracted /\ NoScoreString) =>
        IF HasPair(ex_input.fs_home, ex_input.fs_away)
        THEN ex_result = Score(FieldValue(ex_input.fs_home),
                               FieldValue(ex_input.fs_away))
        ELSE IF HasPair(ex_input.home_score, ex_input.away_score)
        THEN ex_result = Score(FieldValue(ex_input.home_score),
                               FieldValue(ex_input.away_score))
        ELSE IF ex_input.scores.t = "dict"
        THEN ex_result = Score(FieldValue(ex_input.scores_home),
                               FieldValue(ex_input.scores_away))
        ELSE TRUE

\* the input has none of the recognized score fields
NoScoreFields ==
    /\ ex_input.score.t = "absent"
    /\ ex_input.fs_home.t = "absent" /\ ex_input.fs_away.t = "absent"
    /\ ex_input.home_score.t = "absent" /\ ex_input.away_score.t = "absent"
    /\ ex_input.scores.t = "absent"

\* C8: for a record with none of the recognized score fields extract_score
\* returns {home: 0, away: 0}.
C8_NoFieldsGivesZero ==
    (Extracted /\ NoScoreFields) => ex_result = Score(0, 0)

\* a record with team and league fields only has been extracted
C8_Witness ==
    /\ Extracted
    /\ NoScoreFields
    /\ ex_input.home_name.t = "str"
    /\ ex_result = Score(0, 0)

\* the two sides of a score string: the first two pieces between "-"
Side(i) == PySplit(ex_input.score.s, "-")[i]

\* the integer a side of a score string stands for, 0 when it is no number
SideValue(i) == IF PyInt(Side(i)).ok THEN PyInt(Side(i)).val ELSE 0

\* C9: extract_score never raises; it returns integers for home and away
\* for every record, each component that is no number being 0, and it
\* changes no tracker state.
C9_NeverFails ==
    Extracted =>
        /\ ex_result.exc = "none"
        /\ ex_result.home \in Int /\ ex_result.away \in Int
        /\ ~NoScoreString =>
               ex_result = Score(SideValue(1), SideValue(2))
        /\ (NoScoreString /\ HasPair(ex_input.fs_home, ex_input.fs_away)
                /\ ex_input.score.t # "absent") =>
               ex_result = Score(FieldValue(ex_input.fs_home),
                                 FieldValue(ex_input.fs_away))
        /\ (ex_input.scores.t \notin {"absent", "dict"}
                /\ ex_input.score.t # "absent" /\ NoScoreString
                /\ ~HasPair(ex_input.fs_home, ex_input.fs_away)
                /\ ~HasPair(ex_input.home_score, ex_input.away_score)) =>
               ex_result = Score(0, 0)
        /\ last_scores = EmptyDict /\ filtered_matches = {}
        /\ tracked_matches_info = EmptyDict /\ notifications = <<>>
        /\ score_change_times = EmptyDict
        /\ zero_score_start_times = EmptyDict

\* a `scores` value that is no mapping has been extracted as {0, 0}
C9_Witness ==
    /\ Extracted
    /\ ex_input.score.t = "none"
    /\ ex_input.scores.t = "str"
    /\ ~HasPair(ex_input.fs_home, ex_input.fs_away)
    /\ ~HasPair(ex_input.home_score, ex_input.away_score)
    /\ ex_result = Score(0, 0)

\* C10: every score in the score table has home >= 0 and away >= 0.
C10_ScoresNonNegative ==
    \A k \in DOMAIN last_scores :
        last_scores[k].home >= 0 /\ last_scores[k].away >= 0

(***************************************************************************)
(* Properties of the ActivityTracker, checked under SpecActivity.          *)
(***************************************************************************)
\* the last call was get_activity
Classified == act.op = "get_activity"

\* the age, at the last call, of the score change recorded for its match
ChangeAge == act.time - act.prev_change[act.match_id]

\* C11: Hot takes precedence over Cold: a get_activity call made less than
\* 300 seconds after the match's last recorded score change returns Hot
\* whatever the current score is, a total of 0 with a zero timer that is
\* 1200 seconds old or older included.
C11_HotFirst ==
    (Classified /\ act.match_id \in DOMAIN act.prev_change /\ ChangeAge < 300)
        => act.label = "H"

\* a match at 0-0 with a running zero timer was classified Hot
C11_Witness ==
    /\ Classified
    /\ act.match_id \in DOMAIN act.prev_change
    /\ ChangeAge < 300
    /\ act.score.home + act.score.away = 0
    /\ act.match_id \in DOMAIN act.prev_zero
    /\ act.label = "H"

C13_SecondCallChangesNothing ==
    (Classified /\ act.again) =>
        /\ act.label = act.prev_label
        /\ zero_score_start_times = act.prev_zero
        /\ score_change_times = act.prev_change

\* a Cold match was classified a second time at the same instant
C13_Witness ==
    /\ Classified
    /\ act.again
    /\ act.label = "C"
    /\ act.match_id \in DOMAIN zero_score_start_times

\* C21: after every get_activity call made with a nonzero total score the
\* match holds no zero timer, whatever its other timers, also when the call
\* returns Hot.
C21_NonzeroClearsZeroTimer ==
    (Classified /\ act.score.home + act.score.away # 0) =>
        act.match_id \notin DOMAIN zero_score_start_times

\* C22: after every get_activity call made with total score 0 the match
\* holds a zero timer that is not later than the call, also when the call
\* returns Hot.
C22_ZeroStartsZeroTimer ==
    (Classified /\ act.score.home + act.score.away = 0) =>
        /\ act.match_id \in DOMAIN zero_score_start_times
        /\ zero_score_start_times[act.match_id] <= act.time

(***************************************************************************)
(* Properties of should_track_match, checked under SpecFilter.             *)
(***************************************************************************)
\* the last stand-alone call was made for a record that passes the sport rule
SportPassed == fcall.called /\ is_tracked_sport(fcall.md)

\* the record of the last call matches an exclusion list
Excluded == is_excluded_team(fcall.md) \/ is_excluded_league(fcall.md)

\* the record of the last call matches an inclusion list
Included == is_team_match(fcall.md) \/ is_league_match(fcall.md)

\* C14: a record whose id is in the explicit tracked-ID set and whose sport
\* passes the sport rule is accepted, also when one of its teams is on the
\* excluded-team list or its league is on the excluded-league list.
C14_TrackedIdBeatsExclusion ==
    (SportPassed /\ FilterId(fcall.md) \in tracked_match_ids) => fcall.result

\* a record tracked by ID was accepted although its home team is excluded
C14_Witness ==
    /\ SportPassed
    /\ FilterId(fcall.md) \in tracked_match_ids
    /\ is_excluded_team(fcall.md)
    /\ fcall.result

\* C15: a record that passes the sport rule and whose id is not in the
\* tracked-ID set is accepted exactly when it matches no excluded team and
\* no excluded league and either track_all_matches is set or it matches an
\* included team or league; an exclusion rejects it whatever else holds.
C15_ExclusionThenInclusion ==
    (SportPassed /\ FilterId(fcall.md) \notin tracked_match_ids) =>
        fcall.result = (~Excluded /\ (config.track_all_matches \/ Included))

\* with track_all_matches set, a record of an excluded team was rejected
C15_Witness ==
    /\ SportPassed
    /\ FilterId(fcall.md) \notin tracked_match_ids
    /\ config.track_all_matches
    /\ Excluded
    /\ ~fcall.result

\* C16: for a fixed configuration, every call of should_track_match with the
\* same record returns the same decision, whatever was called before and
\* whatever the tracked-match cache, the filtered-match set and the score
\* table hold.
C16_DecisionIgnoresHistory == Cardinality(decided.results) <= 1

\* a record was rejected a second time while its id was in the tracked-match
\* cache and the filtered-match set and the score table were filled
C16_Witness ==
    /\ fcall.called
    /\ fcall.repeat
    /\ fcall.cached
    /\ ~fcall.result
    /\ filtered_matches # {}
    /\ last_scores # EmptyDict

\* what the rules after the sport rule decide for the record of the last call
OtherRulesAccept ==
    \/ FilterId(fcall.md) \in tracked_match_ids
    \/ ~Excluded /\ (config.track_all_matches \/ Included)

\* C23: with an empty sport allow-list (sports = []) should_track_match
\* rejects no record because of its sport, as when no allow-list is set.
C23_EmptyAllowListRejectsNothing ==
    (fcall.called /\ config.sports = {}) => fcall.result = OtherRulesAccept

\* C24: the sport rule tests the derived sport (sport_name, sport, the
\* category fields, then inference from the league text): a record whose
\* derived sport is on the allow-list is not rejected by the sport rule.
C24_SportRuleUsesDerivedSport ==
    (/\ fcall.called
     /\ ~config.sports_is_none
     /\ PyLower(DeriveSport(fcall.md)) \in tracked_sports) =>
        fcall.result = OtherRulesAccept

\* C25: every identity for which a should_track_match call returned true
\* has an entry in the tracked-match cache, whichever rule accepted it.
C25_AcceptedIsCached ==
    (fcall.called /\ fcall.result) =>
        FilterId(fcall.md) \in DOMAIN tracked_matches_info

\* C26: first observation wins: no should_track_match or process_match call
\* changes or removes an entry the tracked-match cache holds.
C26_CacheEntryNeverChanges ==
    [][\A k \in DOMAIN tracked_matches_info :
           /\ k \in DOMAIN tracked_matches_info'
           /\ tracked_matches_info'[k] = tracked_matches_info[k]]_vars

\* a record tracked by ID was accepted while the cache held, for its id, the
\* entry of an earlier record with other teams
C26_Witness ==
    /\ fcall.called
    /\ fcall.cached
    /\ fcall.result
    /\ FilterId(fcall.md) \in tracked_match_ids
    /\ tracked_matches_info[FilterId(fcall.md)] # MatchInfo(fcall.md)

(***************************************************************************)
(* Properties of the polling loop, checked under SpecLoop and, for what    *)
(* must eventually happen, under SpecLoopFair.                             *)
(***************************************************************************)
\* the worker's last step handed a match to process_match
Processed == worker.did = "process"

\* C17: the previous score a match is diffed against was recorded for the
\* same real-world match in an earlier cycle; two different records of the
\* upstream list, records without an `id` included, never meet under one
\* table key.
C17_DiffAgainstSameMatch ==
    (Processed /\ worker.prev_writer.cycle > 0) =>
        /\ worker.prev_writer.cycle < worker.cycles
        /\ SameMatch(worker.prev_writer.md, call.match_data)

\* C18: when the delivery of a notification fails, process_match still
\* stores the current score of the match under its key in the same call,
\* raises nothing, and the worker goes on with the rest of the cycle.
C18_DeliveryFailureContained ==
    (Processed /\ worker.delivery = "fails") =>
        /\ call.match_id \in DOMAIN last_scores
        /\ last_scores[call.match_id] = CallScore
        /\ ~worker.raised
        /\ ~worker.aborted
        /\ worker.pc \in {"process", "summary"}

\* in the second cycle the rise of match "1" was notified, the delivery
\* failed, the new score is in the table and match "2" is still to come
C18_Witness ==
    /\ Processed
    /\ worker.delivery = "fails"
    /\ worker.cycles = 2
    /\ call.match_id = <<"1">>
    /\ last_scores[call.match_id] = [home |-> 2, away |-> 0]
    /\ worker.pc = "process"

\* C19: no error raised inside a cycle ends the loop: the thread never dies
\* of an exception, an error that reaches the handler of the cycle takes the
\* worker to the sleep, the sleep leads back to the test of the flag, the
\* worker begins the next cycle there when the flag is set, and the loop is
\* left only at that test with the flag cleared.
C19_ErrorsStayInside ==
    [][/\ worker'.pc # "crashed"
       /\ (worker'.raised /\ worker'.aborted) => worker'.pc = "sleep"
       /\ (worker.pc = "sleep" /\ worker' # worker) => worker'.pc = "top"
       /\ (worker.pc = "top" /\ running /\ worker' # worker) =>
              worker'.cycles = worker.cycles + 1
       /\ (worker'.pc = "exited" /\ worker.pc # "exited") =>
              (worker.pc = "top" /\ ~running)]_vars

\* the cycle after one that an error cut short is under way
C19_Witness ==
    /\ running
    /\ worker.after_abort
    /\ worker.cycles = 2
    /\ worker.pc = "process"

\* C20: after stop(), with no further start(), the worker begins no cycle
\* any more, finds the flag cleared at its next test and leaves the loop;
\* stop() returns, also when the worker outlives the join timeout.
C20_StopEndsLoop ==
    /\ [][worker'.cycles # worker.cycles => running]_vars
    /\ (main.stopped ~> worker.pc = "exited")
    /\ (main.pc = "joining" ~> main.pc = "idle")

\* stop() returned on the timeout and the worker left the loop later
C20_Witness ==
    /\ main.stopped
    /\ main.pc = "idle"
    /\ main.timed_out
    /\ worker.pc = "exited"

(***************************************************************************)
(* Properties of one upstream fetch, checked under SpecRequest.            *)
(***************************************************************************)
AllFailed == \A i \in 1..Len(request.log) : request.log[i] \in Failures

\* C27: one get_live_matches call makes at most max_retries attempts and none
\* after the first success, sleeps retry_delay * 2^attempt after failed
\* attempt number attempt (counted from 0), and when every attempt failed
\* returns an empty list instead of raising.
C27_BoundedRetriesThenEmpty ==
    /\ Len(request.log) <= config.max_retries
    /\ \A i \in 1..(Len(request.log) - 1) : request.log[i] \in Failures
    /\ Len(request.slept) =
           Cardinality({i \in 1..Len(request.log) : request.log[i] \in Failures})
    /\ \A i \in 1..Len(request.slept) :
           request.slept[i] = config.retry_delay * 2^(i - 1)
    /\ (request.pc = "done" /\ AllFailed) =>
           /\ Len(request.log) = config.max_retries
           /\ request.result = "empty"
           /\ ~request.escaped

\* every one of at least three attempts failed and the call has returned
C27_Witness ==
    /\ request.pc = "done"
    /\ config.max_retries >= 3
    /\ Len(request.log) = config.max_retries
    /\ AllFailed
    /\ request.result = "empty"

(***************************************************************************)
(* Properties of the ScoreCache, checked under SpecCache.                  *)
(***************************************************************************)
\* the age, at the last ScoreCache call, of the entry the cache then held
AgeBefore(k) == cache_call.time - cache_call.before[k].timestamp

\* C28: get returns the stored record exactly when the entry is not older
\* than the expiry, and otherwise returns nothing and deletes the entry;
\* clear_expired removes exactly the entries older than the expiry; so both
\* treat an entry of one age alike.
C28_CacheExpiry ==
    /\ cache_call.op = "get" =>
           IF /\ cache_call.match_id \in DOMAIN cache_call.before
              /\ AgeBefore(cache_call.match_id) <= config.cache_expiry
           THEN /\ cache_call.returned.hit
                /\ cache_call.returned.data =
                       cache_call.before[cache_call.match_id].data
                /\ score_cache = cache_call.before
           ELSE /\ ~cache_call.returned.hit
                /\ cache_call.match_id \notin DOMAIN score_cache
                /\ \A k \in DOMAIN cache_call.before \ {cache_call.match_id} :
                       k \in DOMAIN score_cache /\ score_cache[k] = cache_call.before[k]
    /\ cache_call.op = "clear_expired" =>
           /\ DOMAIN score_cache =
                  {k \in DOMAIN cache_call.before : AgeBefore(k) <= config.cache_expiry}
           /\ \A k \in DOMAIN score_cache : score_cache[k] = cache_call.before[k]

\* clear_expired dropped an entry older than the expiry and kept an entry
\* whose age was exactly the expiry
C28_Witness ==
    /\ cache_call.op = "clear_expired"
    /\ \E k \in DOMAIN cache_call.before : k \notin DOMAIN score_cache
    /\ \E k \in DOMAIN score_cache : AgeBefore(k) = config.cache_expiry

(***************************************************************************)
(* Properties of start() and stop(), checked under SpecThreads.            *)
(***************************************************************************)
\* C29: whatever the order of the start() and stop() calls, at most one
\* thread is inside a polling cycle at a time; a start() after a stop()
\* whose join timed out never leaves the old and the new thread both cycling.
C29_OneWorkerCycling ==
    Cardinality({i \in DOMAIN threads : threads[i].pc = "cycle"}) <= 1

(***************************************************************************)
(* A property of one polling cycle, checked under SpecLoop.                *)
(***************************************************************************)
LastLive == worker.live[Len(worker.live)]

\* C30: in every polling cycle each record of the live list that the filter
\* accepts and whose score can be read is passed to process_match, in
\* upstream order, whether or not it or another record of the list carries
\* an `id`; so when the last step of a cycle was a process_match call that
\* returned, it was the call for the last such record of the list.
C30_EveryAcceptedRecordProcessed ==
    (/\ worker.pc = "summary"
     /\ worker.did = "process"
     /\ ~worker.raised
     /\ should_track_match(LastLive)
     /\ extract_score(LastLive).exc = "none") =>
        SameMatch(call.match_data, LastLive)

====
